---- MODULE Spec2Model ----
(***************************************************************************)
(* The triage inference pipeline of backend/services/inference.py and      *)
(* backend/services/routing.py: input normalisation, feature encoding and  *)
(* schema reconciliation, department routing with the safety override,     *)
(* priority scoring and the EHR summary.                                   *)
(*                                                                         *)
(* Every function of the pipeline is a pure function of its arguments; the *)
(* state machine is one call of one function: the action of a function     *)
(* draws its arguments, runs the whole function and records what it        *)
(* returned or the exception that left it.                                 *)
(*                                                                         *)
(* Numbers (Python int and finite float) are integers counting tenths, so  *)
(* 98.6 is 986 and the limits 130 and 103 are 1300 and 1030.  A Python str *)
(* is the sequence of its pieces; a piece is one character (a blank, a     *)
(* comma, a dot, a digit) or a whole word that holds no comma and neither  *)
(* starts nor ends with a blank ("Chest Pain", "nan").                     *)
(***************************************************************************)
EXTENDS Integers, Sequences, FiniteSets, TLC

VARIABLES
    call,           \* the function that was called ("none" before the call)
    patient_input,  \* the raw patient record (a dict: a sequence of <<key, value>>)
    raw_value,      \* the raw argument of a normaliser
    risk_label,     \* the label decoded from the classifier's prediction
    confidence,     \* the classifier's maximum class probability, in 1/ConfDen
    dept_pred,      \* the label decoded from the department model's prediction
    patient_id,     \* the patient id handed to the EHR summariser
    source_df,      \* the EHR dataset handed to the EHR summariser
    shap_values,    \* the attributions the tree explainer answers for the row
    feature_names,  \* the feature names handed to Explainer.explain
    result          \* what the call returned, or the exception it raised

vars == <<call, patient_input, raw_value, risk_label, confidence, dept_pred,
          patient_id, source_df, shap_values, feature_names, result>>

---------------------------------------------------------------------------
(* Bounds of the enumerated inputs. *)
MaxStrLen == 2
MaxListLen == 2
MaxRows == 2
MaxFeatures == 4
MaxAttr == 2
ConfDen == 40

---------------------------------------------------------------------------
(* Python values.  t is the type; n, s and l hold the payload of a number, *)
(* a str and a list of str.                                                *)
PyNum(n) == [t |-> "num", n |-> n, s |-> <<>>, l |-> <<>>]
PyNaN == [t |-> "nan", n |-> 0, s |-> <<>>, l |-> <<>>]
PyInf == [t |-> "inf", n |-> 0, s |-> <<>>, l |-> <<>>]
PyNone == [t |-> "none", n |-> 0, s |-> <<>>, l |-> <<>>]
PyStr(s) == [t |-> "str", n |-> 0, s |-> s, l |-> <<>>]
PyList(l) == [t |-> "list", n |-> 0, s |-> <<>>, l |-> l]
Word(w) == PyStr(<<w>>)
Tenths(n) == n * 10

(* A call's outcome: a returned value, or the exception that left it. *)
Return(v) == [exc |-> "", val |-> v]
Raise(e) == [exc |-> e, val |-> PyNone]
Raised(r) == r.exc # ""

---------------------------------------------------------------------------
(* str.strip(), str.split(","), ",".join(list) *)
RECURSIVE LStrip(_)
LStrip(s) == IF s # <<>> /\ Head(s) = " " THEN LStrip(Tail(s)) ELSE s

RECURSIVE RStrip(_)
RStrip(s) ==
    IF s # <<>> /\ s[Len(s)] = " " THEN RStrip(SubSeq(s, 1, Len(s) - 1)) ELSE s

Strip(s) == RStrip(LStrip(s))

RECURSIVE SplitComma(_)
SplitComma(s) ==
    IF \E i \in 1..Len(s) : s[i] = ","
    THEN LET i == CHOOSE k \in 1..Len(s) :
                      s[k] = "," /\ \A j \in 1..(k - 1) : s[j] # ","
         IN  <<SubSeq(s, 1, i - 1)>> \o SplitComma(SubSeq(s, i + 1, Len(s)))
    ELSE <<s>>

RECURSIVE JoinComma(_)
JoinComma(l) ==
    IF l = <<>> THEN <<>>
    ELSE IF Len(l) = 1 THEN l[1]
    ELSE l[1] \o <<",">> \o JoinComma(Tail(l))

(* [x.strip() for x in items if x.strip()] *)
RECURSIVE StripNonEmpty(_)
StripNonEmpty(items) ==
    IF items = <<>> THEN <<>>
    ELSE (IF Strip(Head(items)) # <<>> THEN <<Strip(Head(items))>> ELSE <<>>)
         \o StripNonEmpty(Tail(items))

(* _normalize_symptoms with the split entries kept as they are. *)
_normalize_symptoms_keep_blank(raw_symptoms) ==
    IF raw_symptoms.t = "list" THEN StripNonEmpty(raw_symptoms.l)
    ELSE IF raw_symptoms.t = "str" THEN SplitComma(raw_symptoms.s)
    ELSE <<>>

_normalize_symptoms(raw_symptoms) ==
    IF raw_symptoms.t = "list" THEN StripNonEmpty(raw_symptoms.l)
    ELSE IF raw_symptoms.t = "str" THEN StripNonEmpty(SplitComma(raw_symptoms.s))
    ELSE <<>>

_normalize_conditions(raw_conditions) ==
    IF raw_conditions.t = "list" THEN StripNonEmpty(raw_conditions.l)
    ELSE IF raw_conditions.t = "str" THEN StripNonEmpty(SplitComma(raw_conditions.s))
    ELSE <<>>

---------------------------------------------------------------------------
(* float(value) and _safe_float *)
Digits == <<"0", "1", "2", "3", "4", "5", "6", "7", "8", "9">>
IsDigit(p) == \E d \in 1..10 : Digits[d] = p
DigitVal(p) == (CHOOSE d \in 1..10 : Digits[d] = p) - 1

RECURSIVE DecVal(_)
DecVal(s) == IF s = <<>> THEN 0
             ELSE 10 * DecVal(SubSeq(s, 1, Len(s) - 1)) + DigitVal(s[Len(s)])

AllDigits(s) == s # <<>> /\ \A i \in 1..Len(s) : IsDigit(s[i])

(* float() of a str: blanks around the text are skipped; the text is nan,  *)
(* inf, digits, or digits "." digit; anything else is a ValueError.        *)
ParseFloat(s) ==
    LET b == Strip(s) IN
    IF b = <<"nan">> THEN Return(PyNaN)
    ELSE IF b = <<"inf">> THEN Return(PyInf)
    ELSE IF AllDigits(b) THEN Return(PyNum(Tenths(DecVal(b))))
    ELSE IF /\ Len(b) >= 3
            /\ b[Len(b) - 1] = "."
            /\ IsDigit(b[Len(b)])
            /\ AllDigits(SubSeq(b, 1, Len(b) - 2))
         THEN Return(PyNum(Tenths(DecVal(SubSeq(b, 1, Len(b) - 2)))
                           + DigitVal(b[Len(b)])))
    ELSE Raise("ValueError")

PyFloat(value) ==
    CASE value.t = "num" -> Return(value)
      [] value.t = "nan" -> Return(value)
      [] value.t = "inf" -> Return(value)
      [] value.t = "str" -> ParseFloat(value.s)
      [] OTHER -> Raise("TypeError")

(* int(x) of a float: truncation; NaN and infinity cannot be converted. *)
PyIntOfFloat(value) ==
    CASE value.t = "nan" -> Raise("ValueError")
      [] value.t = "inf" -> Raise("OverflowError")
      [] OTHER -> Return(PyNum(IF value.n >= 0
                               THEN Tenths(value.n \div 10)
                               ELSE -Tenths((-value.n) \div 10)))

_safe_float(value, default) ==
    LET r == PyFloat(value) IN
    IF r.exc \in {"TypeError", "ValueError"} THEN default ELSE r.val

---------------------------------------------------------------------------
(* A dict is the sequence of its <<key, value>> items in insertion order;  *)
(* a key is a str.                                                         *)
HasKey(d, k) == \E i \in 1..Len(d) : d[i][1] = k
KeyIndex(d, k) == CHOOSE i \in 1..Len(d) : d[i][1] = k
DictGet(d, k, default) == IF HasKey(d, k) THEN d[KeyIndex(d, k)][2] ELSE default
DictSet(d, k, v) ==
    IF HasKey(d, k) THEN [d EXCEPT ![KeyIndex(d, k)] = <<k, v>>]
    ELSE Append(d, <<k, v>>)
DictPop(d, k) == SelectSeq(d, LAMBDA item : item[1] # k)

(* The keys of the patient record. *)
K_Symptoms == <<"Symptoms">>
K_Conditions == <<"Pre_Existing_Conditions">>
K_Age == <<"Age">>
K_BP == <<"Blood_Pressure">>
K_HR == <<"Heart_Rate">>
K_Temp == <<"Temperature">>
K_Gender == <<"Gender">>
K_PatientId == <<"Patient_ID">>
K_Name == <<"Patient_Name">>

(* get_dummies names a dummy column <column>_<level>. *)
DummyName(col, level) == col \o <<"_">> \o level

---------------------------------------------------------------------------
(* The frozen artifacts: the symptom encoder's vocabulary (classes_, in    *)
(* sorted order) and the classifier's declared columns (feature_names_in_).*)
SymptomClasses == << <<"Chest Pain">>, <<"Fever">>, <<"Seizure">> >>

FeatureNames ==
    << K_Age, K_BP, K_HR, K_Temp,
       <<"Chest Pain">>, <<"Fever">>, <<"Headache">>,
       DummyName(K_Gender, <<"Male">>),
       DummyName(K_Conditions, <<"Diabetes">>) >>

(* symptom_encoder.transform([symptoms_list]): one 0/1 cell per class;     *)
(* symptoms outside the vocabulary are ignored.                            *)
SymptomsEncoded(symptoms_list) ==
    [i \in 1..Len(SymptomClasses) |->
        <<SymptomClasses[i],
          IF \E j \in 1..Len(symptoms_list) : symptoms_list[j] = SymptomClasses[i]
          THEN PyNum(Tenths(1)) ELSE PyNum(0)>>]

(* A one-row table is the sequence of its <<column, cell>> pairs.          *)
HasColumn(df, col) == \E i \in 1..Len(df) : df[i][1] = col

(* The levels of a column of a one-row table: its cell, unless null.       *)
Levels(df, col) ==
    LET cell == df[CHOOSE i \in 1..Len(df) : df[i][1] = col][2] IN
    IF cell.t \in {"none", "nan"} THEN <<>>
    ELSE IF cell.t = "str" THEN <<cell.s>>
    ELSE <<<<"#">>>>

(* The dummy columns of col with every level kept. *)
DummiesKeepFirst(df, col) ==
    LET levels == Levels(df, col) IN
    [i \in 1..Len(levels) |-> <<DummyName(col, levels[i]), PyNum(Tenths(1))>>]

(* The dummy columns of col with drop_first=True: one per level but the    *)
(* first; the cell is 1 when the row holds that level.                     *)
Dummies(df, col) ==
    LET levels == Levels(df, col)
        kept == SubSeq(levels, 2, Len(levels))
    IN  [i \in 1..Len(kept) |-> <<DummyName(col, kept[i]), PyNum(Tenths(1))>>]

(* pd.get_dummies(df, columns=[Gender, Pre_Existing_Conditions],           *)
(* drop_first=True): selecting a column the table lacks is a KeyError; the *)
(* encoded columns leave the table and their dummies are appended.         *)
GetDummies(df) ==
    IF ~HasColumn(df, K_Gender) \/ ~HasColumn(df, K_Conditions)
    THEN Raise("KeyError")
    ELSE [exc |-> "",
          val |-> SelectSeq(df, LAMBDA c : c[1] # K_Gender /\ c[1] # K_Conditions)
                  \o Dummies(df, K_Gender) \o Dummies(df, K_Conditions)]

(* for col in feature_names_in_: if col not in df.columns: df[col] = 0 *)
RECURSIVE PadMissing(_, _)
PadMissing(df, names) ==
    IF names = <<>> THEN df
    ELSE PadMissing(IF HasColumn(df, Head(names)) THEN df
                    ELSE Append(df, <<Head(names), PyNum(0)>>),
                    Tail(names))

(* df[names]: for each name in turn, every column of the table that       *)
(* carries it (a label that occurs twice selects both columns).            *)
RECURSIVE SelectColumns(_, _)
SelectColumns(df, names) ==
    IF names = <<>> THEN <<>>
    ELSE SelectSeq(df, LAMBDA c : c[1] = Head(names))
         \o SelectColumns(df, Tail(names))

preprocess(input) ==
    LET symptoms_list == _normalize_symptoms(DictGet(input, K_Symptoms, PyList(<<>>)))
        p0 == DictPop(input, K_Symptoms)
        conditions == _normalize_conditions(DictGet(p0, K_Conditions, PyList(<<>>)))
        p1 == DictSet(p0, K_Conditions,
                      IF conditions # <<>> THEN PyStr(conditions[1]) ELSE Word("None"))
        age == PyIntOfFloat(_safe_float(DictGet(p1, K_Age, PyNone), PyNum(0)))
        p2 == DictSet(p1, K_Age, age.val)
        p3 == DictSet(p2, K_BP, _safe_float(DictGet(p2, K_BP, PyNone), PyNum(0)))
        p4 == DictSet(p3, K_HR, _safe_float(DictGet(p3, K_HR, PyNone), PyNum(0)))
        p5 == DictSet(p4, K_Temp, _safe_float(DictGet(p4, K_Temp, PyNone), PyNum(0)))
        df == p5 \o SymptomsEncoded(symptoms_list)
        dummied == GetDummies(df)
    IN  IF Raised(age) THEN Raise(age.exc)
        ELSE IF Raised(dummied) THEN Raise(dummied.exc)
        ELSE [exc |-> "",
              val |-> SelectColumns(PadMissing(dummied.val, FeatureNames), FeatureNames)]

---------------------------------------------------------------------------
(* backend/services/routing.py *)

(* value > limit on a raw value: "true", "false", or the TypeError of      *)
(* comparing a str, None or a list with a number.  NaN compares false.     *)
PyGreater(value, limit) ==
    CASE value.t = "num" -> IF value.n > limit THEN "true" ELSE "false"
      [] value.t = "nan" -> "false"
      [] value.t = "inf" -> "true"
      [] OTHER -> "TypeError"

(* word in container: an element of a list, a substring of a str; any      *)
(* other container is a TypeError.                                         *)
PyContains(container, word) ==
    CASE container.t = "list" ->
            IF \E i \in 1..Len(container.l) : container.l[i] = <<word>>
            THEN "true" ELSE "false"
      [] container.t = "str" ->
            IF \E i \in 1..Len(container.s) : container.s[i] = word
            THEN "true" ELSE "false"
      [] OTHER -> "TypeError"

(* The High-risk test of the router: patient_data["Heart_Rate"] > 130 or   *)
(* patient_data["Temperature"] > 103, evaluated left to right.             *)
RouterVitalsTest(patient_data) ==
    IF ~HasKey(patient_data, K_HR) THEN "KeyError"
    ELSE LET hr == PyGreater(DictGet(patient_data, K_HR, PyNone), Tenths(130)) IN
         IF hr # "false" THEN hr
         ELSE IF ~HasKey(patient_data, K_Temp) THEN "KeyError"
         ELSE PyGreater(DictGet(patient_data, K_Temp, PyNone), Tenths(103))

(* The rules with the Seizure rule ahead of the Chest Pain rule. *)
RouterRules_SeizureFirst(patient_data) ==
    LET symptoms == DictGet(patient_data, K_Symptoms, PyList(<<>>))
        conditions == DictGet(patient_data, K_Conditions, PyList(<<>>))
        chest == PyContains(symptoms, "Chest Pain")
        breath == PyContains(symptoms, "Shortness of Breath")
        seizure == PyContains(symptoms, "Seizure")
        diabetes == PyContains(conditions, "Diabetes")
    IN  IF seizure = "TypeError" THEN Raise("TypeError")
        ELSE IF seizure = "true" THEN Return("Neurology")
        ELSE IF chest = "true" THEN Return("Cardiology")
        ELSE IF breath = "true" THEN Return("Pulmonology")
        ELSE IF diabetes = "TypeError" THEN Raise("TypeError")
        ELSE IF diabetes = "true" THEN Return("Endocrinology")
        ELSE Return("General Medicine")

(* The symptom and condition rules, in the order of the code. *)
RouterRules(patient_data) ==
    LET symptoms == DictGet(patient_data, K_Symptoms, PyList(<<>>))
        conditions == DictGet(patient_data, K_Conditions, PyList(<<>>))
        chest == PyContains(symptoms, "Chest Pain")
        breath == PyContains(symptoms, "Shortness of Breath")
        seizure == PyContains(symptoms, "Seizure")
        diabetes == PyContains(conditions, "Diabetes")
    IN  IF chest = "TypeError" THEN Raise("TypeError")
        ELSE IF chest = "true" THEN Return("Cardiology")
        ELSE IF breath = "true" THEN Return("Pulmonology")
        ELSE IF seizure = "true" THEN Return("Neurology")
        ELSE IF diabetes = "TypeError" THEN Raise("TypeError")
        ELSE IF diabetes = "true" THEN Return("Endocrinology")
        ELSE Return("General Medicine")

recommend_department(patient_data, predicted_risk) ==
    IF predicted_risk = "High"
    THEN LET test == RouterVitalsTest(patient_data) IN
         IF test = "true" THEN Return("Emergency")
         ELSE IF test = "false" THEN RouterRules(patient_data)
         ELSE Raise(test)
    ELSE RouterRules(patient_data)

---------------------------------------------------------------------------
(* _calculate_priority_score: confidence is conf / ConfDen. *)

(* round(p / q) for p >= 0, q > 0: to the nearest integer, a tie to the    *)
(* even one.                                                               *)
PyRound(p, q) ==
    LET f == p \div q
        r == p % q
    IN  IF 2 * r < q THEN f
        ELSE IF 2 * r > q THEN f + 1
        ELSE IF f % 2 = 0 THEN f ELSE f + 1

Max(a, b) == IF a >= b THEN a ELSE b
Min(a, b) == IF a <= b THEN a ELSE b

BaseScore(label) ==
    CASE label = "Low" -> 25
      [] label = "Medium" -> 55
      [] label = "High" -> 80
      [] OTHER -> 40

(* The score with the confidence term subtracted. *)
_calculate_priority_score_minus(label, conf) ==
    Max(0, Min(100, BaseScore(label) - PyRound(conf * 20, ConfDen)))

_calculate_priority_score(label, conf) ==
    Max(0, Min(100, BaseScore(label) + PyRound(conf * 20, ConfDen)))

---------------------------------------------------------------------------
(* The EHR summary.  A dataset is absent (None) or a table: the set of its *)
(* columns and the sequence of its rows; a row maps a column to its cell.  *)
NoDataset == [present |-> FALSE, cols |-> {}, rows |-> <<>>]
Dataset(cols, rows) == [present |-> TRUE, cols |-> cols, rows |-> rows]

_build_default_ehr_summary ==
    [past_visits |-> PyNum(0),
     last_risk |-> Word("Unknown"),
     avg_bp |-> PyNum(0),
     avg_heart_rate |-> PyNum(0),
     chronic_conditions |-> Word("None")]

(* value or default: the default when the value is falsy (None, 0, ""). *)
Truthy(value) ==
    CASE value.t = "none" -> FALSE
      [] value.t = "num" -> value.n # 0
      [] value.t = "str" -> value.s # <<>>
      [] value.t = "list" -> value.l # <<>>
      [] OTHER -> TRUE

PyOr(value, default) == IF Truthy(value) THEN value ELSE default

(* int(value): of a number, of a float that is not finite, of a str (only  *)
(* an integer literal parses).                                             *)
PyInt(value) ==
    CASE value.t \in {"num", "nan", "inf"} -> PyIntOfFloat(value)
      [] value.t = "str" ->
            IF AllDigits(Strip(value.s))
            THEN Return(PyNum(Tenths(DecVal(Strip(value.s)))))
            ELSE Raise("ValueError")
      [] OTHER -> Raise("TypeError")

(* str(value) of a text cell: a str is itself, NaN prints as nan. *)
PyStrOf(value) ==
    CASE value.t = "str" -> Return(value)
      [] value.t = "nan" -> Return(Word("nan"))
      [] value.t = "none" -> Return(Word("None"))

(* row.get(col, default) *)
RowGet(df, row, col, default) == IF col \in df.cols THEN row[col] ELSE default

(* The summary of a row: each field coerced, with its default in place of  *)
(* a falsy cell or a missing column.                                       *)
EhrSummaryOfRow(df, row) ==
    LET past_visits == PyInt(PyOr(RowGet(df, row, "Past_Visits", PyNum(0)), PyNum(0)))
        last_risk == PyStrOf(PyOr(RowGet(df, row, "Last_Risk_Level", Word("Unknown")),
                                  Word("Unknown")))
        avg_bp == PyFloat(PyOr(RowGet(df, row, "Avg_BP", PyNum(0)), PyNum(0)))
        avg_heart_rate ==
            PyFloat(PyOr(RowGet(df, row, "Avg_Heart_Rate", PyNum(0)), PyNum(0)))
        chronic_conditions ==
            PyStrOf(PyOr(RowGet(df, row, "Chronic_Conditions", Word("None")),
                         Word("None")))
    IN  IF Raised(past_visits) THEN Raise(past_visits.exc)
        ELSE IF Raised(last_risk) THEN Raise(last_risk.exc)
        ELSE IF Raised(avg_bp) THEN Raise(avg_bp.exc)
        ELSE IF Raised(avg_heart_rate) THEN Raise(avg_heart_rate.exc)
        ELSE IF Raised(chronic_conditions) THEN Raise(chronic_conditions.exc)
        ELSE Return([past_visits |-> past_visits.val,
                     last_risk |-> last_risk.val,
                     avg_bp |-> avg_bp.val,
                     avg_heart_rate |-> avg_heart_rate.val,
                     chronic_conditions |-> chronic_conditions.val])

(* source_df[source_df["Patient_ID"] == patient_id] *)
MatchingRows(pid, df) ==
    SelectSeq(df.rows, LAMBDA r : r["Patient_ID"].t = "num" /\ r["Patient_ID"].n = pid)

(* The summariser without the test for an empty selection. *)
_extract_ehr_summary_no_empty_test(pid, df) ==
    IF ~df.present \/ "Patient_ID" \notin df.cols
    THEN Return(_build_default_ehr_summary)
    ELSE IF MatchingRows(pid, df) = <<>> THEN Raise("IndexError")
    ELSE EhrSummaryOfRow(df, MatchingRows(pid, df)[1])

_extract_ehr_summary(pid, df) ==
    IF ~df.present \/ "Patient_ID" \notin df.cols
    THEN Return(_build_default_ehr_summary)
    ELSE IF MatchingRows(pid, df) = <<>> THEN Return(_build_default_ehr_summary)
    ELSE EhrSummaryOfRow(df, MatchingRows(pid, df)[1])

---------------------------------------------------------------------------
(* predict_patient *)

EhrColumns ==
    {"Patient_ID", "Past_Visits", "Last_Risk_Level", "Avg_BP", "Avg_Heart_Rate",
     "Chronic_Conditions"}

EhrRow(id, visits, risk, bp, hr, chronic) ==
    [c \in EhrColumns |->
        CASE c = "Patient_ID" -> id
          [] c = "Past_Visits" -> visits
          [] c = "Last_Risk_Level" -> risk
          [] c = "Avg_BP" -> bp
          [] c = "Avg_Heart_Rate" -> hr
          [] c = "Chronic_Conditions" -> chronic]

(* The process-wide dataset read from data/ehr_data.csv at start. *)
ehr_df ==
    Dataset(EhrColumns,
            <<EhrRow(PyNum(Tenths(1)), PyNum(Tenths(2)), Word("Low"),
                     PyNum(Tenths(118)), PyNum(Tenths(72)), Word("Asthma"))>>)

(* The override with >= in place of >. *)
SafetyOverride_NonStrict(input, label) ==
    /\ label = "High"
    /\ \/ PyGreater(_safe_float(DictGet(input, K_HR, PyNone), PyNum(0)), Tenths(130) - 1) = "true"
       \/ PyGreater(_safe_float(DictGet(input, K_Temp, PyNone), PyNum(0)), Tenths(103) - 1) = "true"

(* risk_label == "High" and (_safe_float(Heart_Rate) > 130 or              *)
(* _safe_float(Temperature) > 103); a float compares without raising.      *)
SafetyOverride(input, label) ==
    /\ label = "High"
    /\ \/ PyGreater(_safe_float(DictGet(input, K_HR, PyNone), PyNum(0)), Tenths(130)) = "true"
       \/ PyGreater(_safe_float(DictGet(input, K_Temp, PyNone), PyNum(0)), Tenths(103)) = "true"

(* The merge with the router's answer ahead of the learned label. *)
MergeDepartment_RouterFirst(override, dept_label, routed_department) ==
    IF override THEN "Emergency"
    ELSE IF routed_department # "" THEN routed_department
    ELSE dept_label

(* The department of the result: the override, else the learned label     *)
(* unless it is empty, else the rule router's answer.                      *)
MergeDepartment(override, dept_label, routed_department) ==
    IF override THEN "Emergency"
    ELSE IF dept_label = "" THEN routed_department
    ELSE dept_label

(* The whole of predict_patient but the explanation and the rounding of    *)
(* the confidence; label, conf and dept_label are what the frozen models   *)
(* answer for the encoded vector.                                          *)
predict_patient(input, ehr_source_df, label, conf, dept_label) ==
    LET processed_df == preprocess(input)
        pid == PyIntOfFloat(_safe_float(DictGet(input, K_PatientId, PyNone), PyNum(0)))
        df == IF ehr_source_df.present THEN ehr_source_df ELSE ehr_df
        ehr_summary == _extract_ehr_summary(pid.val.n, df)
        routed_department == recommend_department(input, label)
    IN  IF Raised(processed_df) THEN Raise(processed_df.exc)
        ELSE IF Raised(pid) THEN Raise(pid.exc)
        ELSE IF Raised(ehr_summary) THEN Raise(ehr_summary.exc)
        ELSE IF Raised(routed_department) THEN Raise(routed_department.exc)
        ELSE Return([risk_level |-> label,
                     priority_score |-> _calculate_priority_score(label, conf),
                     recommended_department |->
                         MergeDepartment(SafetyOverride(input, label), dept_label,
                                         routed_department.val),
                     ehr_summary |-> ehr_summary.val])

---------------------------------------------------------------------------
(* backend/services/explain.py.  The attributions are a two-dimensional    *)
(* array (samples x features: rows) or a three-dimensional one (classes x  *)
(* samples x features: slices); an importance is the fraction num / den.   *)
Attributions2D(rows) == [ndim |-> 2, rows |-> rows, slices |-> <<>>]
Attributions3D(slices) == [ndim |-> 3, rows |-> <<>>, slices |-> slices]
NoAttributions == [ndim |-> 0, rows |-> <<>>, slices |-> <<>>]

Abs(x) == IF x < 0 THEN -x ELSE x

RECURSIVE SumAbs(_, _)
SumAbs(slices, i) ==
    IF slices = <<>> THEN 0
    ELSE Abs(Head(slices)[1][i]) + SumAbs(Tail(slices), i)

(* shap_array[0] after np.abs (two dimensions) or after                    *)
(* np.mean(np.abs(shap_array), axis=0) (three): one importance per feature *)
(* of the first sample.                                                    *)
FeatureImportance(values) ==
    IF values.ndim = 3
    THEN [i \in 1..Len(values.slices[1][1]) |->
             [num |-> SumAbs(values.slices, i), den |-> Len(values.slices)]]
    ELSE [i \in 1..Len(values.rows[1]) |->
             [num |-> Abs(values.rows[1][i]), den |-> 1]]

(* zip(feature_names, feature_importance): as long as the shorter one. *)
Zip(names, importance) ==
    [i \in 1..Min(Len(names), Len(importance)) |-> <<names[i], importance[i]>>]

RemoveAt(items, i) == SubSeq(items, 1, i - 1) \o SubSeq(items, i + 1, Len(items))

(* A descending sort that puts the later of two equal items first. *)
RECURSIVE SortedReverse_LaterFirst(_)
SortedReverse_LaterFirst(items) ==
    IF items = <<>> THEN <<>>
    ELSE LET i == CHOOSE k \in 1..Len(items) :
                      /\ \A j \in 1..Len(items) : items[j][2].num <= items[k][2].num
                      /\ \A j \in (k + 1)..Len(items) : items[j][2].num < items[k][2].num
         IN  <<items[i]>> \o SortedReverse_LaterFirst(RemoveAt(items, i))

(* sorted(items, key=lambda x: x[1], reverse=True): descending by the      *)
(* importance; the sort is stable, equal items keep their order.           *)
RECURSIVE SortedReverse(_)
SortedReverse(items) ==
    IF items = <<>> THEN <<>>
    ELSE LET i == CHOOSE k \in 1..Len(items) :
                      /\ \A j \in 1..Len(items) : items[j][2].num <= items[k][2].num
                      /\ \A j \in 1..(k - 1) : items[j][2].num < items[k][2].num
         IN  <<items[i]>> \o SortedReverse(RemoveAt(items, i))

(* dict(pairs): the pairs in order, a repeated key keeping its first place *)
(* and its last value.                                                     *)
RECURSIVE DictOf(_)
DictOf(pairs) ==
    IF pairs = <<>> THEN <<>>
    ELSE LET last == pairs[Len(pairs)] IN
         DictSet(DictOf(SubSeq(pairs, 1, Len(pairs) - 1)), last[1], last[2])

explain(values, names) ==
    LET sorted == SortedReverse(Zip(names, FeatureImportance(values)))
    IN  DictOf(SubSeq(sorted, 1, Min(3, Len(sorted))))

---------------------------------------------------------------------------
(* The enumerated arguments. *)
SeqsUpTo(S, n) == UNION {[1..k -> S] : k \in 0..n}

(* A key the record leaves out. *)
Absent == [t |-> "absent", n |-> 0, s |-> <<>>, l |-> <<>>]
MkDict(items) == SelectSeq(items, LAMBDA item : item[2].t # "absent")

Pieces == {"a", " ", ","}
Strs == SeqsUpTo(Pieces, MaxStrLen)

NormalizerInputs ==
    {PyList(l) : l \in SeqsUpTo(Strs, MaxListLen)}
    \cup {PyStr(str) : str \in Strs}
    \cup {PyStr(<<"a", ",", " ", "b", " ">>), PyNone, PyNum(Tenths(3)), Absent}

RawNumerics ==
    {PyNum(Tenths(90)), PyNum(986), PyNum(0), PyNum(-15),
     PyStr(<<"1", "4", "0">>), PyStr(<<" ", "9", "8", ".", "6">>),
     Word("abc"), PyStr(<<>>), PyStr(<<"1", "2", "a">>),
     Word("nan"), Word("inf"), PyNone, PyList(<<>>), Absent}

HeartRates ==
    {PyNum(Tenths(90)), PyNum(Tenths(130)), PyNum(Tenths(140)),
     PyStr(<<"1", "4", "0">>), Word("fast"), PyNone, Absent}

RouterHeartRates ==
    {PyNum(Tenths(90)), PyNum(Tenths(130)), PyNum(1301), PyStr(<<"1", "4", "0">>), Absent}

Temperatures ==
    {PyNum(Tenths(99)), PyNum(Tenths(103)), PyNum(Tenths(104)),
     PyStr(<<"1", "0", "4">>), Absent}

RouterTemperatures ==
    {PyNum(986), PyNum(Tenths(103)), PyNum(1031), PyNone, Absent}

RiskLabels == {"Low", "Medium", "High", "Critical"}

SymptomWords == {<<"Chest Pain">>, <<"Shortness of Breath">>, <<"Seizure">>, <<"Fever">>}
ConditionWords == {<<"Diabetes">>, <<"Asthma">>}

PatientRecord(pid, age, gender, bp, hr, temp, symptoms, conditions, extra) ==
    MkDict(<< <<K_PatientId, pid>>, <<K_Age, age>>, <<K_Gender, gender>>,
              <<K_BP, bp>>, <<K_HR, hr>>, <<K_Temp, temp>>,
              <<K_Symptoms, symptoms>>, <<K_Conditions, conditions>> >>
           \o extra)

(* Items a caller may add to the record: none, a name, a key that names a  *)
(* symptom class, a key that names a declared column nothing encodes.      *)
ExtraItems ==
    { <<>>,
      << <<K_Name, Word("Ann")>> >>,
      << <<<<"Fever">>, PyNum(Tenths(7))>> >>,
      << <<<<"Headache">>, PyNum(Tenths(7))>> >>,
      << <<DummyName(K_Gender, <<"Male">>), PyNum(Tenths(7))>> >> }

EhrIds == {PyNum(Tenths(42)), PyNum(Tenths(7)), PyStr(<<"4", "2">>)}

EhrRows ==
    {EhrRow(id, PyNum(Tenths(3)), Word("High"), PyNum(Tenths(120)), PyNum(815),
            Word("Diabetes")) : id \in EhrIds}
    \cup {EhrRow(id, PyNaN, PyNaN, PyNaN, PyNaN, PyNaN) : id \in EhrIds}
    \cup {EhrRow(id, PyNone, PyNone, PyNone, PyNone, PyNone) : id \in EhrIds}
    \cup {EhrRow(id, PyNum(0), PyStr(<<>>), PyNum(0), PyNum(0), PyStr(<<>>)) : id \in EhrIds}
    \cup {EhrRow(PyNum(Tenths(42)), Word("many"), Word("Low"), PyStr(<<"1", "2", "0">>),
                 Word("abc"), Word("None"))}

EhrDatasets ==
    {NoDataset}
    \cup {Dataset(cols, rows) :
            cols \in {EhrColumns, EhrColumns \ {"Patient_ID"},
                      {"Patient_ID", "Last_Risk_Level"}},
            rows \in SeqsUpTo(EhrRows, MaxRows)}

(* The attributions of one row over n features: signed values in two      *)
(* dimensions, two class slices of signs in three.                         *)
AttributionArrays(n) ==
    {Attributions2D(<<row>>) : row \in [1..n -> (-MaxAttr)..MaxAttr]}
    \cup {Attributions3D(<< <<r1>>, <<r2>> >>) :
             r1 \in [1..n -> {-1, 0, 1}], r2 \in [1..n -> {-1, 0, 1}]}

---------------------------------------------------------------------------
(* The state machine: one call of one function. *)
NoResult == [exc |-> "", val |-> PyNone]

Init ==
    /\ call = "none"
    /\ patient_input = <<>>
    /\ raw_value = PyNone
    /\ risk_label = ""
    /\ confidence = 0
    /\ dept_pred = ""
    /\ patient_id = 0
    /\ source_df = NoDataset
    /\ shap_values = NoAttributions
    /\ feature_names = <<>>
    /\ result = NoResult

(* For a key the record leaves out, dict.get and dict.pop hand the         *)
(* normaliser the empty list.                                              *)
Given(raw) == IF raw.t = "absent" THEN PyList(<<>>) ELSE raw

NormalizeSymptoms ==
    /\ call = "none"
    /\ \E raw \in NormalizerInputs :
          /\ raw_value' = raw
          /\ result' = Return(_normalize_symptoms(Given(raw)))
    /\ call' = "_normalize_symptoms"
    /\ UNCHANGED <<patient_input, risk_label, confidence, dept_pred, patient_id, source_df,
                 shap_values, feature_names>>

NormalizeConditions ==
    /\ call = "none"
    /\ \E raw \in NormalizerInputs :
          /\ raw_value' = raw
          /\ result' = Return(_normalize_conditions(Given(raw)))
    /\ call' = "_normalize_conditions"
    /\ UNCHANGED <<patient_input, risk_label, confidence, dept_pred, patient_id, source_df,
                 shap_values, feature_names>>

Preprocess ==
    /\ call = "none"
    /\ \E age \in RawNumerics, bp \in {PyNum(Tenths(120)), Word("inf"), Absent},
          gender \in {Word("Male"), Word("Female"), PyNone, Absent},
          symptoms \in {PyList(<<<<"Fever">>, <<"Cough">>>>), PyStr(<<"Chest Pain", ",", "Fever">>),
                        PyList(<<>>), Absent},
          conditions \in {PyList(<<<<"Asthma">>, <<"Diabetes">>>>), Word("Diabetes"), Absent},
          extra \in ExtraItems :
          /\ patient_input' = PatientRecord(PyNum(Tenths(42)), age, gender, bp,
                                            PyNum(Tenths(90)), PyNum(986),
                                            symptoms, conditions, extra)
          /\ result' = preprocess(patient_input')
    /\ call' = "preprocess"
    /\ UNCHANGED <<raw_value, risk_label, confidence, dept_pred, patient_id, source_df,
                 shap_values, feature_names>>

RecommendDepartment ==
    /\ call = "none"
    /\ \E label \in RiskLabels \ {"Low"}, hr \in RouterHeartRates,
          temp \in RouterTemperatures,
          symptoms \in {PyList(l) : l \in SeqsUpTo(SymptomWords, MaxListLen)}
                       \cup {PyStr(<<"Seizure", ",", "Fever">>), PyNone, Absent},
          conditions \in {PyList(l) : l \in SeqsUpTo(ConditionWords, MaxListLen)}
                         \cup {Word("Diabetes"), Absent} :
          /\ patient_input' = PatientRecord(PyNum(Tenths(42)), PyNum(Tenths(40)),
                                            Word("Male"), PyNum(Tenths(120)), hr, temp,
                                            symptoms, conditions, <<>>)
          /\ risk_label' = label
          /\ result' = recommend_department(patient_input', label)
    /\ call' = "recommend_department"
    /\ UNCHANGED <<raw_value, confidence, dept_pred, patient_id, source_df,
                 shap_values, feature_names>>

CalculatePriorityScore ==
    /\ call = "none"
    /\ \E label \in RiskLabels, conf \in 0..ConfDen :
          /\ risk_label' = label
          /\ confidence' = conf
          /\ result' = Return(_calculate_priority_score(label, conf))
    /\ call' = "_calculate_priority_score"
    /\ UNCHANGED <<patient_input, raw_value, dept_pred, patient_id, source_df,
                 shap_values, feature_names>>

ExtractEhrSummary ==
    /\ call = "none"
    /\ \E pid \in {Tenths(42), Tenths(5)}, df \in EhrDatasets :
          /\ patient_id' = pid
          /\ source_df' = df
          /\ result' = _extract_ehr_summary(pid, df)
    /\ call' = "_extract_ehr_summary"
    /\ UNCHANGED <<patient_input, raw_value, risk_label, confidence, dept_pred,
                 shap_values, feature_names>>

PredictPatient ==
    /\ call = "none"
    /\ \E pid \in {PyNum(Tenths(42)), Word("nan")},
          gender \in {Word("Male"), Absent},
          hr \in HeartRates, temp \in Temperatures,
          symptoms \in {PyList(<<<<"Chest Pain">>>>), PyNone, Absent},
          conditions \in {PyList(<<<<"Asthma">>, <<"Diabetes">>>>), Absent},
          label \in RiskLabels \ {"Critical"},
          conf \in {ConfDen \div 2},
          dept_label \in {"", "Cardiology", "Emergency"},
          df \in {NoDataset,
                  Dataset(EhrColumns,
                          <<EhrRow(PyNum(Tenths(42)), PyNaN, PyNaN, PyNaN, PyNaN, PyNaN)>>)} :
          /\ patient_input' = PatientRecord(pid, PyNum(Tenths(40)), gender, PyNum(Tenths(120)),
                                            hr, temp, symptoms, conditions, <<>>)
          /\ source_df' = df
          /\ risk_label' = label
          /\ confidence' = conf
          /\ dept_pred' = dept_label
          /\ result' = predict_patient(patient_input', df, label, conf, dept_label)
    /\ call' = "predict_patient"
    /\ UNCHANGED <<raw_value, patient_id,
                 shap_values, feature_names>>

Explain ==
    /\ call = "none"
    /\ \E n \in 1..MaxFeatures :
          \E values \in AttributionArrays(n) :
              /\ shap_values' = values
              /\ feature_names' = SubSeq(FeatureNames, 1, n)
              /\ result' = Return(explain(values, feature_names'))
    /\ call' = "explain"
    /\ UNCHANGED <<patient_input, raw_value, risk_label, confidence, dept_pred,
                   patient_id, source_df>>

Next ==
    \/ NormalizeSymptoms
    \/ NormalizeConditions
    \/ Preprocess
    \/ RecommendDepartment
    \/ CalculatePriorityScore
    \/ ExtractEhrSummary
    \/ PredictPatient
    \/ Explain

Spec == Init /\ [][Next]_vars

---------------------------------------------------------------------------
(* What the claims speak of. *)
Returned == ~Raised(result)
Department == result.val.recommended_department
RawVital(key) == DictGet(patient_input, key, Absent)

(* The vital, read as a number (0 when it is no number), exceeds the limit. *)
VitalAbove(key, limit) ==
    LET raw == RawVital(key)
        parsed == IF raw.t = "str" THEN ParseFloat(raw.s) ELSE Return(raw)
    IN  /\ ~Raised(parsed)
        /\ \/ parsed.val.t = "inf"
           \/ parsed.val.t = "num" /\ parsed.val.n > limit

OverrideCase ==
    risk_label = "High" /\ (VitalAbove(K_HR, Tenths(130)) \/ VitalAbove(K_Temp, Tenths(103)))

(* C1: whenever predict_patient returns for a High risk label with         *)
(* Heart_Rate > 130 or Temperature > 103, its recommended_department is    *)
(* "Emergency" whatever the department model and the router answer; with   *)
(* Heart_Rate = 130 and Temperature = 103 the learned label is not         *)
(* replaced by "Emergency".                                                *)
C1_SafetyOverride ==
    (call = "predict_patient" /\ Returned) =>
        /\ OverrideCase => Department = "Emergency"
        /\ ( /\ risk_label = "High"
             /\ RawVital(K_HR) = PyNum(Tenths(130))
             /\ RawVital(K_Temp) = PyNum(Tenths(103))
             /\ dept_pred = "Cardiology" ) => Department # "Emergency"

C1_Witness ==
    /\ call = "predict_patient" /\ Returned
    /\ risk_label = "High"
    /\ RawVital(K_HR) = PyNum(Tenths(140))
    /\ RawVital(K_Temp) = PyNum(Tenths(99))
    /\ dept_pred = "Cardiology"
    /\ Department = "Emergency"

(* C2: predict_patient returns, and never raises, for a record whose       *)
(* vitals, Gender, Symptoms or Pre_Existing_Conditions are missing or      *)
(* malformed, for every risk label (the patient id is a number and the     *)
(* fallback dataset is used, so that nothing else can fail).               *)
C2_Totality ==
    ( /\ call = "predict_patient"
      /\ RawVital(K_PatientId).t = "num"
      /\ RawVital(K_Symptoms).t # "none"
      /\ ~source_df.present ) => Returned

(* C3: the vector preprocess returns has exactly the declared columns,     *)
(* each once and in the declared order, and a declared column that the     *)
(* encoding did not produce holds 0.                                       *)
EncodedNames ==
    {K_Age, K_BP, K_HR, K_Temp} \cup {SymptomClasses[i] : i \in 1..Len(SymptomClasses)}

C3_SchemaReconciliation ==
    (call = "preprocess" /\ Returned) =>
        /\ Len(result.val) = Len(FeatureNames)
        /\ \A i \in 1..Len(FeatureNames) :
              /\ result.val[i][1] = FeatureNames[i]
              /\ FeatureNames[i] \notin EncodedNames => result.val[i][2] = PyNum(0)

(* C4: when the safety override does not apply, the recommended department *)
(* is the learned label if that is non-empty, and the rule router's answer *)
(* for the same record and risk label only if it is empty.                 *)
C4_DepartmentPrecedence ==
    (call = "predict_patient" /\ Returned /\ ~OverrideCase) =>
        /\ dept_pred # "" => Department = dept_pred
        /\ dept_pred = "" =>
              Department = recommend_department(patient_input, risk_label).val

C4_Witness ==
    /\ call = "predict_patient" /\ Returned /\ ~OverrideCase
    /\ risk_label = "High"
    /\ dept_pred = ""
    /\ RawVital(K_Symptoms) = PyList(<<<<"Chest Pain">>>>)
    /\ Department = "Cardiology"

(* C5: for numeric vitals and symptom and condition lists, the router      *)
(* returns the first match of: Emergency (High risk and Heart_Rate > 130   *)
(* or Temperature > 103), Cardiology (Chest Pain), Pulmonology (Shortness  *)
(* of Breath), Neurology (Seizure), Endocrinology (Diabetes anywhere in    *)
(* the condition list), General Medicine.                                  *)
Listed(key, word) ==
    LET raw == RawVital(key) IN
    raw.t = "list" /\ \E i \in 1..Len(raw.l) : raw.l[i] = <<word>>

FirstMatch ==
    IF risk_label = "High"
       /\ (RawVital(K_HR).n > Tenths(130) \/ RawVital(K_Temp).n > Tenths(103))
    THEN "Emergency"
    ELSE IF Listed(K_Symptoms, "Chest Pain") THEN "Cardiology"
    ELSE IF Listed(K_Symptoms, "Shortness of Breath") THEN "Pulmonology"
    ELSE IF Listed(K_Symptoms, "Seizure") THEN "Neurology"
    ELSE IF Listed(K_Conditions, "Diabetes") THEN "Endocrinology"
    ELSE "General Medicine"

C5_RouterOrder ==
    ( /\ call = "recommend_department"
      /\ RawVital(K_HR).t = "num" /\ RawVital(K_Temp).t = "num"
      /\ RawVital(K_Symptoms).t \in {"list", "absent"}
      /\ RawVital(K_Conditions).t \in {"list", "absent"} ) =>
        result = Return(FirstMatch)

C5_Witness ==
    /\ call = "recommend_department"
    /\ risk_label = "Medium"
    /\ RawVital(K_Symptoms) = PyList(<<<<"Chest Pain">>>>)
    /\ RawVital(K_HR) = PyNum(Tenths(90))
    /\ RawVital(K_Temp) = PyNum(986)
    /\ result = Return("Cardiology")

(* C6: for a fixed label the priority score does not decrease when the     *)
(* confidence grows within [0, 1], and every score is an integer of        *)
(* [0, 100].                                                               *)
C6_ScoreRangeMonotone ==
    call = "_calculate_priority_score" =>
        /\ result.val \in 0..100
        /\ \A c1 \in 0..confidence :
              _calculate_priority_score(risk_label, c1) <= result.val

C6_Witness ==
    /\ call = "_calculate_priority_score"
    /\ risk_label = "High"
    /\ confidence = ConfDen
    /\ result.val = 100

(* C7: normalising Age, Blood_Pressure, Heart_Rate and Temperature never   *)
(* raises and leaves a finite number in each, Age an integer, whatever     *)
(* the raw value (a str that parses to nan or inf included).               *)
Unparseable(raw) ==
    \/ raw.t \in {"none", "absent", "list"}
    \/ raw.t = "str" /\ Raised(ParseFloat(raw.s))

C7_NumericNormalization ==
    call = "preprocess" =>
        /\ result.exc \notin {"ValueError", "OverflowError", "TypeError"}
        /\ Returned =>
              \A i \in 1..Len(result.val) :
                  /\ result.val[i][1] \in {K_Age, K_BP, K_HR, K_Temp}
                        => /\ result.val[i][2].t = "num"
                           /\ Unparseable(RawVital(result.val[i][1]))
                                 => result.val[i][2].n = 0
                  /\ result.val[i][1] = K_Age => result.val[i][2].n % 10 = 0

(* C8 as stated: a list of strings and the string that joins its entries   *)
(* with commas normalise to the same list.                                 *)
C8_ListStringEquivalence ==
    (call = "_normalize_symptoms" /\ raw_value.t = "list") =>
        result.val = _normalize_symptoms(PyStr(JoinComma(raw_value.l)))

NoComma(str) == \A i \in 1..Len(str) : str[i] # ","

(* C8, amended: a list of strings none of which holds a comma and the      *)
(* string that joins its entries with commas normalise to the same list    *)
(* (entries trimmed, empty entries dropped, order kept), and the symptom   *)
(* and the condition normaliser return the same for every input shape.     *)
C8_ListStringEquivalenceNoComma ==
    /\ ( /\ call \in {"_normalize_symptoms", "_normalize_conditions"}
         /\ raw_value.t = "list"
         /\ \A i \in 1..Len(raw_value.l) : NoComma(raw_value.l[i]) ) =>
            /\ result.val = _normalize_symptoms(PyStr(JoinComma(raw_value.l)))
            /\ result.val = _normalize_conditions(PyStr(JoinComma(raw_value.l)))
    /\ call = "_normalize_symptoms" => result.val = _normalize_conditions(Given(raw_value))
    /\ call = "_normalize_conditions" => result.val = _normalize_symptoms(Given(raw_value))

C8_Witness ==
    /\ call = "_normalize_symptoms"
    /\ raw_value = PyList(<<<<" ", "a">>, <<" ">>>>)
    /\ result.val = <<<<"a">>>>

(* C9: when a row of the dataset carries the patient id, the summariser    *)
(* does not raise and returns, from the first such row, a summary in which *)
(* every null or missing field (a NaN null marker included) holds its      *)
(* default: past_visits an integer, last_risk and chronic_conditions a     *)
(* str, avg_bp and avg_heart_rate a float.                                 *)
EhrHit ==
    /\ source_df.present
    /\ "Patient_ID" \in source_df.cols
    /\ \E i \in 1..Len(source_df.rows) : source_df.rows[i]["Patient_ID"] = PyNum(patient_id)

FirstHit ==
    source_df.rows[CHOOSE i \in 1..Len(source_df.rows) :
        /\ source_df.rows[i]["Patient_ID"] = PyNum(patient_id)
        /\ \A j \in 1..(i - 1) : source_df.rows[j]["Patient_ID"] # PyNum(patient_id)]

IsNull(col) == col \notin source_df.cols \/ FirstHit[col].t \in {"none", "nan"}

C9_EhrCoercion ==
    (call = "_extract_ehr_summary" /\ EhrHit) =>
        /\ Returned
        /\ result.val.past_visits.t = "num" /\ result.val.past_visits.n % 10 = 0
        /\ result.val.last_risk.t = "str"
        /\ result.val.avg_bp.t = "num"
        /\ result.val.avg_heart_rate.t = "num"
        /\ result.val.chronic_conditions.t = "str"
        /\ IsNull("Past_Visits") => result.val.past_visits = PyNum(0)
        /\ IsNull("Last_Risk_Level") => result.val.last_risk = Word("Unknown")
        /\ IsNull("Avg_BP") => result.val.avg_bp = PyNum(0)
        /\ IsNull("Avg_Heart_Rate") => result.val.avg_heart_rate = PyNum(0)
        /\ IsNull("Chronic_Conditions") => result.val.chronic_conditions = Word("None")

(* C10: for a dataset that is absent, has no Patient_ID column or holds no *)
(* row with the patient id, the summariser returns the default summary     *)
(* (0, "Unknown", 0, 0, "None") and does not raise.                        *)
C10_EhrMiss ==
    (call = "_extract_ehr_summary" /\ ~EhrHit) =>
        result = Return([past_visits |-> PyNum(0),
                         last_risk |-> Word("Unknown"),
                         avg_bp |-> PyNum(0),
                         avg_heart_rate |-> PyNum(0),
                         chronic_conditions |-> Word("None")])

C10_Witness ==
    /\ call = "_extract_ehr_summary"
    /\ patient_id = Tenths(42)
    /\ source_df.present
    /\ "Patient_ID" \in source_df.cols
    /\ Len(source_df.rows) = 2
    /\ \A i \in 1..Len(source_df.rows) : source_df.rows[i]["Patient_ID"] = PyNum(Tenths(7))
    /\ result.val.last_risk = Word("Unknown")

(* C11: the explanation has min(3, number of features) entries, in         *)
(* non-increasing order of absolute importance; no entry is less important *)
(* than a feature left out; of two equally important features the one      *)
(* earlier in the feature list comes first (and is the one kept).          *)
RECURSIVE AbsTotal(_, _)
AbsTotal(slices, i) ==
    IF slices = <<>> THEN 0
    ELSE (IF slices[1][1][i] < 0 THEN -slices[1][1][i] ELSE slices[1][1][i])
         + AbsTotal(Tail(slices), i)

(* The absolute importance of feature i, times the number of slices. *)
AbsImportance(i) ==
    IF shap_values.ndim = 3 THEN AbsTotal(shap_values.slices, i)
    ELSE IF shap_values.rows[1][i] < 0 THEN -shap_values.rows[1][i]
    ELSE shap_values.rows[1][i]

FeatureIndex(name) == CHOOSE i \in 1..Len(feature_names) : feature_names[i] = name
Explained == {FeatureIndex(result.val[k][1]) : k \in 1..Len(result.val)}

C11_TopContributors ==
    call = "explain" =>
        LET out == result.val
            at(k) == FeatureIndex(out[k][1])
        IN  /\ Len(out) = IF Len(feature_names) < 3 THEN Len(feature_names) ELSE 3
            /\ \A k \in 1..Len(out) :
                  /\ \E i \in 1..Len(feature_names) : feature_names[i] = out[k][1]
                  /\ out[k][2].num = AbsImportance(at(k))
            /\ \A k, m \in 1..Len(out) :
                  k < m => \/ AbsImportance(at(k)) > AbsImportance(at(m))
                           \/ AbsImportance(at(k)) = AbsImportance(at(m)) /\ at(k) < at(m)
            /\ \A j \in (1..Len(feature_names)) \ Explained :
                  \A k \in 1..Len(out) :
                      \/ AbsImportance(at(k)) > AbsImportance(j)
                      \/ AbsImportance(at(k)) = AbsImportance(j) /\ at(k) < j

C11_Witness ==
    /\ call = "explain"
    /\ shap_values = Attributions2D(<<<<1, -2, 0, 2>>>>)
    /\ Len(result.val) = 3
    /\ result.val[1][1] = FeatureNames[2]
    /\ result.val[2][1] = FeatureNames[4]
    /\ result.val[3][1] = FeatureNames[1]

(* C12: the one level a one-row table holds in Gender and in the collapsed *)
(* Pre_Existing_Conditions is the level drop_first drops, so every         *)
(* Gender_* and Pre_Existing_Conditions_* column of the vector is 0, and   *)
(* a record that differs only in Gender or Pre_Existing_Conditions encodes *)
(* to the same vector.                                                     *)
IsDummyColumn(name) ==
    /\ Len(name) >= 2
    /\ SubSeq(name, 1, 2) \in {K_Gender \o <<"_">>, K_Conditions \o <<"_">>}

OtherGenders == {Word("Male"), Word("Female"), Word("Other"), PyNone}
OtherConditions ==
    {PyList(<<<<"Asthma">>, <<"Diabetes">>>>), Word("Diabetes"), PyList(<<>>), PyNone}

C12_GenderConditionsIgnored ==
    (call = "preprocess" /\ Returned) =>
        /\ \A i \in 1..Len(result.val) :
              IsDummyColumn(result.val[i][1]) => result.val[i][2] = PyNum(0)
        /\ \A gender \in OtherGenders, conditions \in OtherConditions :
              LET other == preprocess(DictSet(DictSet(patient_input, K_Gender, gender),
                                              K_Conditions, conditions))
              IN  Returned /\ ~Raised(other) => other = result

====
